---- MODULE Spec2Model ----
(***************************************************************************)
(* Predicta: the AI oracle (contracts/ai-oracle.clar) and one market       *)
(* instance (contracts/market.clar) as one state machine.  Every public    *)
(* function of the two contracts is one action; a Clarity transaction is   *)
(* atomic, so a call that returns (err ..) leaves every map and data-var   *)
(* as it was and only the response (ret) tells it apart from no call.      *)
(* The off-chain AIResolutionService is modelled beside them: each of its   *)
(* two public methods is one action, the AI's answer being an input.        *)
(***************************************************************************)
EXTENDS Integers, FiniteSets, Sequences, TLC

\* ------------------------------------------------------------------ bounds
MaxNonce == 2            \* nonces a caller may choose: 1..MaxNonce
MaxAdvances == 2         \* how many times the chain height advances
MaxStakeInput == 5       \* max-stake-per-user handed to initialize
MaxPoolInput == 11       \* max-total-pool handed to initialize

\* ------------------------------------------------- principals and market ids
OWNER == "owner"         \* CONTRACT-OWNER: the deployer of both contracts
Users == {"owner", "alice", "bob"}
Signers == {"owner", "alice", "bob", "carol", "dave", "erin", "eve"}
Resolvers == {"alice", "bob", "carol", "dave", "erin"}
MarketIds == {"m1", "m2"}
LedgerIds == {"m1"}                  \* market-id arguments of initialize
Nonces == 1..MaxNonce
Results == {0, 1, 2}                 \* result arguments: SIDE-NONE, YES, NO
MARKET == "market"                   \* the market contract's own principal
StakeAmounts == {0, 3, 5}            \* amount arguments of stake
EndsAtValues == {1, 2}            \* ends-at arguments of initialize
FeeBpValues == {1000, 1001}          \* fee-bp arguments of initialize
AdminAddrs == {"alice"}              \* admin-addr arguments of initialize

\* ------------------------------------------------------- oracle constants
REQUIRED_CONFIRMATIONS == 3
CHALLENGE_PERIOD == 144
O_ERR_NOT_AUTHORIZED == 100
O_ERR_NONCE_USED == 203
O_ERR_ALREADY_RESOLVED == 204
O_ERR_CHALLENGE_ACTIVE == 205
O_ERR_CHALLENGE_EXPIRED == 206
O_ERR_INVALID_RESULT == 207
O_ERR_ALREADY_VOTED == 208
O_ERR_NOT_FINALIZED == 209

\* ------------------------------------------------------- market constants
STATE_ACTIVE == 0
STATE_LOCKED == 1
STATE_RESOLVING == 2
STATE_RESOLVED == 3
STATE_DISPUTED == 4
STATE_CANCELED == 5
SIDE_NONE == 0
SIDE_YES == 1
SIDE_NO == 2
M_ERR_NOT_AUTHORIZED == 100
M_ERR_INVALID_STATE == 101
M_ERR_INVALID_SIDE == 102
M_ERR_ZERO_AMOUNT == 103
M_ERR_MARKET_ENDED == 104
M_ERR_MARKET_NOT_ENDED == 105
M_ERR_ALREADY_RESOLVED == 106
M_ERR_NOT_RESOLVED == 107
M_ERR_ALREADY_CLAIMED == 108
M_ERR_NO_STAKE == 109
M_ERR_EXCEEDS_USER_LIMIT == 110
M_ERR_EXCEEDS_POOL_LIMIT == 111
M_ERR_PAUSED == 114
M_ERR_NOT_INITIALIZED == 115
M_ERR_ALREADY_INITIALIZED == 116
M_ERR_ENDS_AT == 400
M_ERR_FEE_BP == 401
M_ERR_BURN == 999
\* The define-data-var defaults of the two limits (u10000000000 and
\* u1000000000000) exceed TLC's 32-bit integers; they stand here as the two
\* largest representable values, in the same order.  No entry point reads
\* them: stake rejects until initialize has overwritten both.
DEFAULT_FEE_BP == 200
DEFAULT_MAX_STAKE_PER_USER == 2147483646
DEFAULT_MAX_TOTAL_POOL == 2147483647
FEE_BP_MAX == 1000
FEE_BP_SCALE == 10000

VARIABLES
  \* chain
  block_height,
  \* ai-oracle.clar
  admin_roles, resolver_roles,
  resolution_votes, vote_counts, proposed_resolutions,
  finalized_resolutions, used_nonces,
  \* history of ai-oracle.clar: the markets whose record challenge-resolution
  \* has marked and admin-resolve has not overwritten since
  challenged_once,
  \* market.clar
  initialized, market_id, ends_at, created_at, fee_bp,
  max_stake_per_user, max_total_pool, current_state, admin,
  yes_pool, no_pool, fee_amount, distributable_amount,
  stakes, claimed, token_balances,
  \* value transfer port: net value each account received through transfer
  wallet,
  \* payout each user's successful claim returned (0: none yet)
  paid,
  \* history of market.clar: which of lock-market and resolve-market have
  \* answered (ok true) so far
  succeeded,
  \* AIResolutionService: the provider and the clients its constructor made
  aiProvider, anthropic, openai,
  \* the contract calls the service has broadcast, each with the analysis it
  \* was made from, and the entry flagForManualReview logged last
  broadcast, flagged,
  \* how the last call of the service ended
  service_ret,
  \* response of the last contract call: [op, ok, val]
  ret

oracle_vars == <<admin_roles, resolver_roles, resolution_votes, vote_counts,
                 proposed_resolutions, finalized_resolutions, used_nonces,
                 challenged_once>>
config_vars == <<initialized, market_id, ends_at, created_at, fee_bp,
                 max_stake_per_user, max_total_pool, admin>>
stake_vars == <<yes_pool, no_pool, stakes, token_balances>>
market_vars == <<config_vars, current_state, stake_vars, fee_amount,
                 distributable_amount, claimed, wallet, paid, succeeded>>
service_vars == <<aiProvider, anthropic, openai, broadcast, flagged, service_ret>>
vars == <<block_height, oracle_vars, market_vars, service_vars, ret>>

Ok(op, v) == [op |-> op, ok |-> TRUE, val |-> v]
Err(op, e) == [op |-> op, ok |-> FALSE, val |-> e]

\* "no entry" of the proposed-resolutions map
NoResolution == [result |-> 0, timestamp |-> 0, proposer |-> "none",
                 challenge_deadline |-> 0, challenged |-> FALSE, some |-> FALSE]

\* ================================================================ ai-oracle
has_admin_role(user) == user = OWNER \/ user \in admin_roles

\* has_resolver_role granting the capability to every caller
has_resolver_role_Anyone(user) == TRUE

has_resolver_role(user) == has_admin_role(user) \/ user \in resolver_roles

get_vote_count(m, side) ==
  IF <<m, side>> \in DOMAIN vote_counts THEN vote_counts[<<m, side>>] ELSE 0

is_resolution_finalized(m) == m \in finalized_resolutions

has_user_voted(m, resolver) == resolution_votes[m][resolver] # 0

\* get-resolution: [ok, val] with val the verdict or ERR-NOT-FINALIZED
get_resolution(m) ==
  IF proposed_resolutions[m].some /\ is_resolution_finalized(m)
  THEN [ok |-> TRUE, val |-> proposed_resolutions[m].result]
  ELSE [ok |-> FALSE, val |-> O_ERR_NOT_FINALIZED]

\* the record propose-resolution-internal writes
ProposedRecord(result, proposer) ==
  [result |-> result, timestamp |-> block_height, proposer |-> proposer,
   challenge_deadline |-> block_height + CHALLENGE_PERIOD,
   challenged |-> FALSE, some |-> TRUE]

\* SubmitCheck without the used-nonces assertion
SubmitCheck_NoNonce(voter, m, result, nonce) ==
  IF is_resolution_finalized(m) THEN O_ERR_ALREADY_RESOLVED
  ELSE IF ~(result = 1 \/ result = 2) THEN O_ERR_INVALID_RESULT
  ELSE IF has_user_voted(m, voter) THEN O_ERR_ALREADY_VOTED
  ELSE IF ~has_resolver_role(voter) THEN O_ERR_NOT_AUTHORIZED
  ELSE 0

\* SubmitCheck without the has-user-voted assertion
SubmitCheck_NoVoted(voter, m, result, nonce) ==
  IF is_resolution_finalized(m) THEN O_ERR_ALREADY_RESOLVED
  ELSE IF ~(result = 1 \/ result = 2) THEN O_ERR_INVALID_RESULT
  ELSE IF nonce \in used_nonces THEN O_ERR_NONCE_USED
  ELSE IF ~has_resolver_role(voter) THEN O_ERR_NOT_AUTHORIZED
  ELSE 0

\* SubmitCheck testing the capability before the nonce
SubmitCheck_RoleFirst(voter, m, result, nonce) ==
  IF is_resolution_finalized(m) THEN O_ERR_ALREADY_RESOLVED
  ELSE IF ~(result = 1 \/ result = 2) THEN O_ERR_INVALID_RESULT
  ELSE IF ~has_resolver_role(voter) THEN O_ERR_NOT_AUTHORIZED
  ELSE IF nonce \in used_nonces THEN O_ERR_NONCE_USED
  ELSE IF has_user_voted(m, voter) THEN O_ERR_ALREADY_VOTED
  ELSE 0

\* the asserts! of submit-resolution, in order; 0 when all pass
SubmitCheck(voter, m, result, nonce) ==
  IF is_resolution_finalized(m) THEN O_ERR_ALREADY_RESOLVED
  ELSE IF ~(result = 1 \/ result = 2) THEN O_ERR_INVALID_RESULT
  ELSE IF nonce \in used_nonces THEN O_ERR_NONCE_USED
  ELSE IF has_user_voted(m, voter) THEN O_ERR_ALREADY_VOTED
  ELSE IF ~has_resolver_role(voter) THEN O_ERR_NOT_AUTHORIZED
  ELSE 0

\* SubmitEffect comparing the count before the vote with the threshold
SubmitEffect_LateThreshold(voter, m, result, nonce) ==
  LET current_votes == get_vote_count(m, result) IN
  /\ used_nonces' = used_nonces \cup {nonce}
  /\ resolution_votes' = [resolution_votes EXCEPT ![m][voter] = result]
  /\ vote_counts' = [vote_counts EXCEPT ![<<m, result>>] = current_votes + 1]
  /\ proposed_resolutions' =
       IF current_votes >= REQUIRED_CONFIRMATIONS
       THEN [proposed_resolutions EXCEPT ![m] = ProposedRecord(result, voter)]
       ELSE proposed_resolutions
  /\ UNCHANGED <<admin_roles, resolver_roles, finalized_resolutions, challenged_once>>

\* SubmitEffect taking the vote it counts from the other verdict's counter
SubmitEffect_MovesCount(voter, m, result, nonce) ==
  LET current_votes == get_vote_count(m, result) IN
  /\ used_nonces' = used_nonces \cup {nonce}
  /\ resolution_votes' = [resolution_votes EXCEPT ![m][voter] = result]
  /\ vote_counts' = [vote_counts EXCEPT ![<<m, result>>] = current_votes + 1,
                                        ![<<m, 3 - result>>] = IF @ > 0 THEN @ - 1 ELSE 0]
  /\ proposed_resolutions' =
       IF current_votes + 1 >= REQUIRED_CONFIRMATIONS
       THEN [proposed_resolutions EXCEPT ![m] = ProposedRecord(result, voter)]
       ELSE proposed_resolutions
  /\ UNCHANGED <<admin_roles, resolver_roles, finalized_resolutions, challenged_once>>

\* SubmitEffect counting the vote twice
SubmitEffect_DoubleCount(voter, m, result, nonce) ==
  LET current_votes == get_vote_count(m, result) IN
  /\ used_nonces' = used_nonces \cup {nonce}
  /\ resolution_votes' = [resolution_votes EXCEPT ![m][voter] = result]
  /\ vote_counts' = [vote_counts EXCEPT ![<<m, result>>] = current_votes + 2]
  /\ proposed_resolutions' =
       IF current_votes + 2 >= REQUIRED_CONFIRMATIONS
       THEN [proposed_resolutions EXCEPT ![m] = ProposedRecord(result, voter)]
       ELSE proposed_resolutions
  /\ UNCHANGED <<admin_roles, resolver_roles, finalized_resolutions, challenged_once>>

SubmitEffect(voter, m, result, nonce) ==
  LET current_votes == get_vote_count(m, result) IN
  /\ used_nonces' = used_nonces \cup {nonce}
  /\ resolution_votes' = [resolution_votes EXCEPT ![m][voter] = result]
  /\ vote_counts' = [vote_counts EXCEPT ![<<m, result>>] = current_votes + 1]
  /\ proposed_resolutions' =
       IF current_votes + 1 >= REQUIRED_CONFIRMATIONS
       THEN [proposed_resolutions EXCEPT ![m] = ProposedRecord(result, voter)]
       ELSE proposed_resolutions
  /\ UNCHANGED <<admin_roles, resolver_roles, finalized_resolutions, challenged_once>>

submit_resolution(voter, m, result, nonce) ==
  LET e == SubmitCheck(voter, m, result, nonce) IN
  /\ IF e # 0
     THEN ret' = Err("submit-resolution", e) /\ UNCHANGED oracle_vars
     ELSE ret' = Ok("submit-resolution", 1) /\ SubmitEffect(voter, m, result, nonce)
  /\ UNCHANGED <<block_height, market_vars, service_vars>>

\* FinalizeCheck without the challenged assertion
FinalizeCheck_IgnoreChallenged(m) ==
  LET resolution == proposed_resolutions[m] IN
  IF ~resolution.some THEN O_ERR_INVALID_RESULT
  ELSE IF resolution.result = 0 THEN O_ERR_INVALID_RESULT
  ELSE IF is_resolution_finalized(m) THEN O_ERR_ALREADY_RESOLVED
  ELSE IF ~(block_height >= resolution.challenge_deadline) THEN O_ERR_CHALLENGE_ACTIVE
  ELSE 0

\* FinalizeCheck without the finalized assertion
FinalizeCheck_NoFinalized(m) ==
  LET resolution == proposed_resolutions[m] IN
  IF ~resolution.some THEN O_ERR_INVALID_RESULT
  ELSE IF resolution.result = 0 THEN O_ERR_INVALID_RESULT
  ELSE IF ~(block_height >= resolution.challenge_deadline) THEN O_ERR_CHALLENGE_ACTIVE
  ELSE IF resolution.challenged THEN O_ERR_INVALID_RESULT
  ELSE 0

\* FinalizeCheck passing one block before the deadline
FinalizeCheck_OneBlockEarly(m) ==
  LET resolution == proposed_resolutions[m] IN
  IF ~resolution.some THEN O_ERR_INVALID_RESULT
  ELSE IF resolution.result = 0 THEN O_ERR_INVALID_RESULT
  ELSE IF is_resolution_finalized(m) THEN O_ERR_ALREADY_RESOLVED
  ELSE IF ~(block_height + 1 >= resolution.challenge_deadline) THEN O_ERR_CHALLENGE_ACTIVE
  ELSE IF resolution.challenged THEN O_ERR_INVALID_RESULT
  ELSE 0

\* the unwrap! and asserts! of finalize-resolution, in order; 0 when all pass
FinalizeCheck(m) ==
  LET resolution == proposed_resolutions[m] IN
  IF ~resolution.some THEN O_ERR_INVALID_RESULT
  ELSE IF resolution.result = 0 THEN O_ERR_INVALID_RESULT
  ELSE IF is_resolution_finalized(m) THEN O_ERR_ALREADY_RESOLVED
  ELSE IF ~(block_height >= resolution.challenge_deadline) THEN O_ERR_CHALLENGE_ACTIVE
  ELSE IF resolution.challenged THEN O_ERR_INVALID_RESULT
  ELSE 0

\* finalize_resolution answering (ok true) without setting the flag
finalize_resolution_NoFlag(m) ==
  LET e == FinalizeCheck(m) IN
  /\ IF e # 0
     THEN ret' = Err("finalize-resolution", e) /\ UNCHANGED finalized_resolutions
     ELSE /\ ret' = Ok("finalize-resolution", 1)
          /\ UNCHANGED finalized_resolutions
  /\ UNCHANGED <<admin_roles, resolver_roles, resolution_votes, vote_counts,
                 proposed_resolutions, used_nonces, challenged_once>>
  /\ UNCHANGED <<block_height, market_vars, service_vars>>

finalize_resolution(m) ==
  LET e == FinalizeCheck(m) IN
  /\ IF e # 0
     THEN ret' = Err("finalize-resolution", e) /\ UNCHANGED finalized_resolutions
     ELSE /\ ret' = Ok("finalize-resolution", 1)
          /\ finalized_resolutions' = finalized_resolutions \cup {m}
  /\ UNCHANGED <<admin_roles, resolver_roles, resolution_votes, vote_counts,
                 proposed_resolutions, used_nonces, challenged_once>>
  /\ UNCHANGED <<block_height, market_vars, service_vars>>

\* ChallengeCheck accepting a challenge at the deadline itself
ChallengeCheck_AtDeadline(m) ==
  LET resolution == proposed_resolutions[m] IN
  IF ~resolution.some THEN O_ERR_INVALID_RESULT
  ELSE IF resolution.result = 0 THEN O_ERR_INVALID_RESULT
  ELSE IF ~(block_height <= resolution.challenge_deadline) THEN O_ERR_CHALLENGE_EXPIRED
  ELSE IF is_resolution_finalized(m) THEN O_ERR_ALREADY_RESOLVED
  ELSE 0

\* the unwrap! and asserts! of challenge-resolution, in order; 0 when all pass
ChallengeCheck(m) ==
  LET resolution == proposed_resolutions[m] IN
  IF ~resolution.some THEN O_ERR_INVALID_RESULT
  ELSE IF resolution.result = 0 THEN O_ERR_INVALID_RESULT
  ELSE IF ~(block_height < resolution.challenge_deadline) THEN O_ERR_CHALLENGE_EXPIRED
  ELSE IF is_resolution_finalized(m) THEN O_ERR_ALREADY_RESOLVED
  ELSE 0

challenge_resolution(m) ==
  LET e == ChallengeCheck(m) IN
  /\ IF e # 0
     THEN /\ ret' = Err("challenge-resolution", e)
          /\ UNCHANGED <<proposed_resolutions, challenged_once>>
     ELSE /\ ret' = Ok("challenge-resolution", 1)
          /\ proposed_resolutions' =
               [proposed_resolutions EXCEPT ![m].challenged = TRUE]
          /\ challenged_once' = challenged_once \cup {m}
  /\ UNCHANGED <<admin_roles, resolver_roles, resolution_votes, vote_counts,
                 finalized_resolutions, used_nonces>>
  /\ UNCHANGED <<block_height, market_vars, service_vars>>

\* AdminResolveCheck without the verdict assertion
AdminResolveCheck_AnyResult(caller, result) ==
  IF ~has_admin_role(caller) THEN O_ERR_NOT_AUTHORIZED
  ELSE 0

\* the asserts! of admin-resolve, in order; 0 when all pass
AdminResolveCheck(caller, result) ==
  IF ~has_admin_role(caller) THEN O_ERR_NOT_AUTHORIZED
  ELSE IF ~(result = 1 \/ result = 2) THEN O_ERR_INVALID_RESULT
  ELSE 0

\* AdminRecord with a challenge period still to run
AdminRecord_WithPeriod(result, caller) ==
  [result |-> result, timestamp |-> block_height, proposer |-> caller,
   challenge_deadline |-> block_height + CHALLENGE_PERIOD,
   challenged |-> FALSE, some |-> TRUE]

\* the record admin-resolve writes
AdminRecord(result, caller) ==
  [result |-> result, timestamp |-> block_height, proposer |-> caller,
   challenge_deadline |-> block_height, challenged |-> FALSE, some |-> TRUE]

\* admin_resolve reopening a market that was finalized already
admin_resolve_Reopens(caller, m, result) ==
  LET e == AdminResolveCheck(caller, result) IN
  /\ IF e # 0
     THEN /\ ret' = Err("admin-resolve", e)
          /\ UNCHANGED <<proposed_resolutions, finalized_resolutions,
                         challenged_once>>
     ELSE /\ ret' = Ok("admin-resolve", 1)
          /\ proposed_resolutions' =
               [proposed_resolutions EXCEPT ![m] = AdminRecord(result, caller)]
          /\ finalized_resolutions' =
               IF m \in finalized_resolutions
               THEN finalized_resolutions \ {m}
               ELSE finalized_resolutions \cup {m}
          /\ challenged_once' = challenged_once \ {m}
  /\ UNCHANGED <<admin_roles, resolver_roles, resolution_votes, vote_counts,
                 used_nonces>>
  /\ UNCHANGED <<block_height, market_vars, service_vars>>

admin_resolve(caller, m, result) ==
  LET e == AdminResolveCheck(caller, result) IN
  /\ IF e # 0
     THEN /\ ret' = Err("admin-resolve", e)
          /\ UNCHANGED <<proposed_resolutions, finalized_resolutions,
                         challenged_once>>
     ELSE /\ ret' = Ok("admin-resolve", 1)
          /\ proposed_resolutions' =
               [proposed_resolutions EXCEPT ![m] = AdminRecord(result, caller)]
          /\ finalized_resolutions' = finalized_resolutions \cup {m}
          /\ challenged_once' = challenged_once \ {m}
  /\ UNCHANGED <<admin_roles, resolver_roles, resolution_votes, vote_counts,
                 used_nonces>>
  /\ UNCHANGED <<block_height, market_vars, service_vars>>

\* =================================================================== market
Sides == {SIDE_YES, SIDE_NO}

is_admin(user) == user = admin \/ user = OWNER

get_user_stake(user, side) ==
  IF <<user, side>> \in DOMAIN stakes THEN stakes[<<user, side>>] ELSE 0

has_claimed(user) == user \in claimed

get_token_balance(owner, token_id) ==
  IF <<owner, token_id>> \in DOMAIN token_balances
  THEN token_balances[<<owner, token_id>>] ELSE 0

\* token.transfer(amount, from, to) when it answers (ok true)
PortTransfer(w, amount, from, to) ==
  LET debited == [w EXCEPT ![from] = @ - amount] IN
  [debited EXCEPT ![to] = @ + amount]

\* InitializeCheck without the initialized assertion
InitializeCheck_Repeatable(ends_at_value, fee_bp_value) ==
  IF ~(ends_at_value > block_height) THEN M_ERR_ENDS_AT
  ELSE IF ~(fee_bp_value <= FEE_BP_MAX) THEN M_ERR_FEE_BP
  ELSE 0

\* the asserts! of initialize, in order; 0 when all pass
InitializeCheck(ends_at_value, fee_bp_value) ==
  IF initialized THEN M_ERR_ALREADY_INITIALIZED
  ELSE IF ~(ends_at_value > block_height) THEN M_ERR_ENDS_AT
  ELSE IF ~(fee_bp_value <= FEE_BP_MAX) THEN M_ERR_FEE_BP
  ELSE 0

initialize(admin_addr, market_id_value, ends_at_value, fee_bp_value, max_stake, max_pool) ==
  LET e == InitializeCheck(ends_at_value, fee_bp_value) IN
  /\ IF e # 0
     THEN ret' = Err("initialize", e) /\ UNCHANGED <<config_vars, current_state>>
     ELSE /\ ret' = Ok("initialize", 1)
          /\ initialized' = TRUE
          /\ market_id' = market_id_value
          /\ ends_at' = ends_at_value
          /\ created_at' = block_height
          /\ fee_bp' = fee_bp_value
          /\ max_stake_per_user' = max_stake
          /\ max_total_pool' = max_pool
          /\ admin' = admin_addr
          /\ current_state' = STATE_ACTIVE
  /\ UNCHANGED <<stake_vars, fee_amount, distributable_amount, claimed,
                 wallet, paid, succeeded>>
  /\ UNCHANGED <<block_height, oracle_vars, service_vars>>

\* StakeCheck without the total-pool assertion
StakeCheck_NoPoolLimit(caller, side, amount) ==
  LET user_current_stake == get_user_stake(caller, side)
      new_user_stake == user_current_stake + amount
  IN
  IF ~initialized THEN M_ERR_NOT_INITIALIZED
  ELSE IF ~(current_state = STATE_ACTIVE) THEN M_ERR_INVALID_STATE
  ELSE IF ~(block_height < ends_at) THEN M_ERR_MARKET_ENDED
  ELSE IF ~(side = SIDE_YES \/ side = SIDE_NO) THEN M_ERR_INVALID_SIDE
  ELSE IF ~(amount > 0) THEN M_ERR_ZERO_AMOUNT
  ELSE IF ~(new_user_stake <= max_stake_per_user) THEN M_ERR_EXCEEDS_USER_LIMIT
  ELSE 0

\* StakeCheck accepting a stake at the end height itself
StakeCheck_Inclusive(caller, side, amount) ==
  LET user_current_stake == get_user_stake(caller, side)
      new_user_stake == user_current_stake + amount
      new_total_pool == (yes_pool + no_pool) + amount
  IN
  IF ~initialized THEN M_ERR_NOT_INITIALIZED
  ELSE IF ~(current_state = STATE_ACTIVE) THEN M_ERR_INVALID_STATE
  ELSE IF ~(block_height <= ends_at) THEN M_ERR_MARKET_ENDED
  ELSE IF ~(side = SIDE_YES \/ side = SIDE_NO) THEN M_ERR_INVALID_SIDE
  ELSE IF ~(amount > 0) THEN M_ERR_ZERO_AMOUNT
  ELSE IF ~(new_user_stake <= max_stake_per_user) THEN M_ERR_EXCEEDS_USER_LIMIT
  ELSE IF ~(new_total_pool <= max_total_pool) THEN M_ERR_EXCEEDS_POOL_LIMIT
  ELSE 0

\* the asserts! of stake, in order; 0 when all pass
StakeCheck(caller, side, amount) ==
  LET user_current_stake == get_user_stake(caller, side)
      new_user_stake == user_current_stake + amount
      new_total_pool == (yes_pool + no_pool) + amount
  IN
  IF ~initialized THEN M_ERR_NOT_INITIALIZED
  ELSE IF ~(current_state = STATE_ACTIVE) THEN M_ERR_INVALID_STATE
  ELSE IF ~(block_height < ends_at) THEN M_ERR_MARKET_ENDED
  ELSE IF ~(side = SIDE_YES \/ side = SIDE_NO) THEN M_ERR_INVALID_SIDE
  ELSE IF ~(amount > 0) THEN M_ERR_ZERO_AMOUNT
  ELSE IF ~(new_user_stake <= max_stake_per_user) THEN M_ERR_EXCEEDS_USER_LIMIT
  ELSE IF ~(new_total_pool <= max_total_pool) THEN M_ERR_EXCEEDS_POOL_LIMIT
  ELSE 0

mint_position_token(recipient, token_id, amount) ==
  token_balances' = [token_balances EXCEPT ![<<recipient, token_id>>] =
                       get_token_balance(recipient, token_id) + amount]

\* StakeEffect adding every stake to the yes pool
StakeEffect_OnePool(caller, side, amount) ==
  /\ wallet' = PortTransfer(wallet, amount, caller, MARKET)
  /\ stakes' = [stakes EXCEPT ![<<caller, side>>] =
                  get_user_stake(caller, side) + amount]
  /\ yes_pool' = yes_pool + amount
  /\ no_pool' = no_pool
  /\ mint_position_token(caller, side, amount)

\* StakeEffect recording the stake without the transfer into custody
StakeEffect_NoTransfer(caller, side, amount) ==
  /\ wallet' = wallet
  /\ stakes' = [stakes EXCEPT ![<<caller, side>>] =
                  get_user_stake(caller, side) + amount]
  /\ IF side = SIDE_YES
     THEN /\ yes_pool' = yes_pool + amount
          /\ no_pool' = no_pool
          /\ mint_position_token(caller, 1, amount)
     ELSE /\ no_pool' = no_pool + amount
          /\ yes_pool' = yes_pool
          /\ mint_position_token(caller, 2, amount)

StakeEffect(caller, side, amount) ==
  /\ wallet' = PortTransfer(wallet, amount, caller, MARKET)
  /\ stakes' = [stakes EXCEPT ![<<caller, side>>] =
                  get_user_stake(caller, side) + amount]
  /\ IF side = SIDE_YES
     THEN /\ yes_pool' = yes_pool + amount
          /\ no_pool' = no_pool
          /\ mint_position_token(caller, 1, amount)
     ELSE /\ no_pool' = no_pool + amount
          /\ yes_pool' = yes_pool
          /\ mint_position_token(caller, 2, amount)

\* stake keeping the stake entry it wrote when the transfer fails
stake_KeepsStake(caller, side, amount, transfer_ok) ==
  LET e == StakeCheck(caller, side, amount) IN
  /\ IF e # 0
     THEN ret' = Err("stake", e) /\ UNCHANGED <<stake_vars, wallet>>
     ELSE IF ~transfer_ok
     THEN /\ ret' = Err("stake", 1)
          /\ stakes' = [stakes EXCEPT ![<<caller, side>>] =
                          get_user_stake(caller, side) + amount]
          /\ UNCHANGED <<yes_pool, no_pool, token_balances, wallet>>
     ELSE ret' = Ok("stake", 1) /\ StakeEffect(caller, side, amount)
  /\ UNCHANGED <<config_vars, current_state, fee_amount, distributable_amount,
                 claimed, paid, succeeded>>
  /\ UNCHANGED <<block_height, oracle_vars, service_vars>>

\* transfer_ok: whether the token contract the caller passed answers (ok true)
stake(caller, side, amount, transfer_ok) ==
  LET e == StakeCheck(caller, side, amount) IN
  /\ IF e # 0
     THEN ret' = Err("stake", e) /\ UNCHANGED <<stake_vars, wallet>>
     ELSE IF ~transfer_ok
     THEN ret' = Err("stake", 1) /\ UNCHANGED <<stake_vars, wallet>>
     ELSE ret' = Ok("stake", 1) /\ StakeEffect(caller, side, amount)
  /\ UNCHANGED <<config_vars, current_state, fee_amount, distributable_amount,
                 claimed, paid, succeeded>>
  /\ UNCHANGED <<block_height, oracle_vars, service_vars>>

\* the asserts! of lock-market, in order; 0 when all pass
LockCheck ==
  IF ~(block_height >= ends_at) THEN M_ERR_MARKET_NOT_ENDED
  ELSE IF ~(current_state = STATE_ACTIVE) THEN M_ERR_INVALID_STATE
  ELSE 0

lock_market ==
  /\ IF LockCheck # 0
     THEN /\ ret' = Err("lock-market", LockCheck)
          /\ UNCHANGED <<current_state, succeeded>>
     ELSE /\ ret' = Ok("lock-market", 1)
          /\ current_state' = STATE_LOCKED
          /\ succeeded' = succeeded \cup {"lock-market"}
  /\ UNCHANGED <<config_vars, stake_vars, fee_amount, distributable_amount,
                 claimed, wallet, paid>>
  /\ UNCHANGED <<block_height, oracle_vars, service_vars>>

\* the asserts! of resolve-market, in order; 0 when all pass.  The oracle is
\* bound in the let but never called (market.clar:317-319).
ResolveCheck ==
  IF ~(current_state = STATE_LOCKED \/ current_state = STATE_RESOLVING)
  THEN M_ERR_INVALID_STATE
  ELSE IF ~(block_height >= ends_at) THEN M_ERR_MARKET_NOT_ENDED
  ELSE 0

\* calculated_fee rounding up instead of truncating
calculated_fee_RoundUp(total_pool) ==
  ((total_pool * fee_bp) + (FEE_BP_SCALE - 1)) \div FEE_BP_SCALE

calculated_fee(total_pool) == (total_pool * fee_bp) \div FEE_BP_SCALE

resolve_market ==
  LET total_pool == yes_pool + no_pool
      fee == calculated_fee(total_pool)
      distributable == total_pool - fee
  IN
  /\ IF ResolveCheck # 0
     THEN /\ ret' = Err("resolve-market", ResolveCheck)
          /\ UNCHANGED <<current_state, fee_amount, distributable_amount,
                         succeeded>>
     ELSE /\ ret' = Ok("resolve-market", 1)
          /\ fee_amount' = fee
          /\ distributable_amount' = distributable
          /\ current_state' = STATE_RESOLVED
          /\ succeeded' = succeeded \cup {"resolve-market"}
  /\ UNCHANGED <<config_vars, stake_vars, claimed, wallet, paid>>
  /\ UNCHANGED <<block_height, oracle_vars, service_vars>>

\* claim's winning side is the literal SIDE-YES (market.clar:353)
winning_side == SIDE_YES

winning_pool == IF winning_side = SIDE_YES THEN yes_pool ELSE no_pool

\* ClaimCheck without the has-claimed assertion
ClaimCheck_NoFlag(caller) ==
  LET user_stake == get_user_stake(caller, winning_side) IN
  IF ~(current_state = STATE_RESOLVED) THEN M_ERR_NOT_RESOLVED
  ELSE IF ~(user_stake > 0) THEN M_ERR_NO_STAKE
  ELSE IF ~(winning_pool > 0) THEN M_ERR_NO_STAKE
  ELSE 0

\* the asserts! of claim, in order; 0 when all pass
ClaimCheck(caller) ==
  LET user_stake == get_user_stake(caller, winning_side) IN
  IF ~(current_state = STATE_RESOLVED) THEN M_ERR_NOT_RESOLVED
  ELSE IF has_claimed(caller) THEN M_ERR_ALREADY_CLAIMED
  ELSE IF ~(user_stake > 0) THEN M_ERR_NO_STAKE
  ELSE IF ~(winning_pool > 0) THEN M_ERR_NO_STAKE
  ELSE 0

\* Payout rounding up instead of truncating
Payout_RoundUp(user_stake, distributable, pool) ==
  ((user_stake * distributable) + (pool - 1)) \div pool

Payout(user_stake, distributable, pool) == (user_stake * distributable) \div pool

\* burn-position-token succeeds iff the balance covers the amount
BurnOk(owner, token_id, amount) == get_token_balance(owner, token_id) >= amount

\* inside as-contract tx-sender is the contract itself: both principals of
\* claim's transfer are the market contract (market.clar:380)
ClaimTransferFrom(caller) == MARKET
ClaimTransferTo(caller) == MARKET

ClaimEffect(caller) ==
  LET user_stake == get_user_stake(caller, winning_side)
      payout == Payout(user_stake, distributable_amount, winning_pool)
      token_id == IF winning_side = SIDE_YES THEN 1 ELSE 2
  IN
  /\ claimed' = claimed \cup {caller}
  /\ token_balances' = [token_balances EXCEPT ![<<caller, token_id>>] =
                          get_token_balance(caller, token_id) - user_stake]
  /\ wallet' = PortTransfer(wallet, payout, ClaimTransferFrom(caller),
                            ClaimTransferTo(caller))
  /\ paid' = [paid EXCEPT ![caller] = payout]
  /\ ret' = Ok("claim", payout)

\* claim keeping the claimed flag it set when the transfer fails
claim_KeepsFlag(caller, transfer_ok) ==
  LET e == ClaimCheck(caller)
      token_id == IF winning_side = SIDE_YES THEN 1 ELSE 2
  IN
  /\ IF e # 0
     THEN ret' = Err("claim", e) /\ UNCHANGED <<claimed, token_balances, wallet, paid>>
     ELSE IF ~BurnOk(caller, token_id, get_user_stake(caller, winning_side))
     THEN /\ ret' = Err("claim", M_ERR_BURN)
          /\ UNCHANGED <<claimed, token_balances, wallet, paid>>
     ELSE IF ~transfer_ok
     THEN /\ ret' = Err("claim", 1)
          /\ claimed' = claimed \cup {caller}
          /\ UNCHANGED <<token_balances, wallet, paid>>
     ELSE ClaimEffect(caller)
  /\ UNCHANGED <<config_vars, current_state, yes_pool, no_pool, stakes,
                 fee_amount, distributable_amount, succeeded>>
  /\ UNCHANGED <<block_height, oracle_vars, service_vars>>

\* transfer_ok: whether the token contract the caller passed answers (ok true)
claim(caller, transfer_ok) ==
  LET e == ClaimCheck(caller)
      token_id == IF winning_side = SIDE_YES THEN 1 ELSE 2
  IN
  /\ IF e # 0
     THEN ret' = Err("claim", e) /\ UNCHANGED <<claimed, token_balances, wallet, paid>>
     ELSE IF ~BurnOk(caller, token_id, get_user_stake(caller, winning_side))
     THEN /\ ret' = Err("claim", M_ERR_BURN)
          /\ UNCHANGED <<claimed, token_balances, wallet, paid>>
     ELSE IF ~transfer_ok
     THEN ret' = Err("claim", 1) /\ UNCHANGED <<claimed, token_balances, wallet, paid>>
     ELSE ClaimEffect(caller)
  /\ UNCHANGED <<config_vars, current_state, yes_pool, no_pool, stakes,
                 fee_amount, distributable_amount, succeeded>>
  /\ UNCHANGED <<block_height, oracle_vars, service_vars>>

\* CancelCheck without the resolved assertion
CancelCheck_NoResolved(caller) ==
  IF ~is_admin(caller) THEN M_ERR_NOT_AUTHORIZED
  ELSE IF current_state = STATE_CANCELED THEN M_ERR_PAUSED
  ELSE 0

\* the asserts! of cancel-market, in order; 0 when all pass
CancelCheck(caller) ==
  IF ~is_admin(caller) THEN M_ERR_NOT_AUTHORIZED
  ELSE IF current_state = STATE_RESOLVED THEN M_ERR_ALREADY_RESOLVED
  ELSE IF current_state = STATE_CANCELED THEN M_ERR_PAUSED
  ELSE 0

\* cancel_market leaving the market Disputed
cancel_market_Disputes(caller) ==
  LET e == CancelCheck(caller) IN
  /\ IF e # 0
     THEN ret' = Err("cancel-market", e) /\ UNCHANGED current_state
     ELSE ret' = Ok("cancel-market", 1) /\ current_state' = STATE_DISPUTED
  /\ UNCHANGED <<config_vars, stake_vars, fee_amount, distributable_amount,
                 claimed, wallet, paid, succeeded>>
  /\ UNCHANGED <<block_height, oracle_vars, service_vars>>

cancel_market(caller) ==
  LET e == CancelCheck(caller) IN
  /\ IF e # 0
     THEN ret' = Err("cancel-market", e) /\ UNCHANGED current_state
     ELSE ret' = Ok("cancel-market", 1) /\ current_state' = STATE_CANCELED
  /\ UNCHANGED <<config_vars, stake_vars, fee_amount, distributable_amount,
                 claimed, wallet, paid, succeeded>>
  /\ UNCHANGED <<block_height, oracle_vars, service_vars>>

\* ====================================================== AIResolutionService
AIProviders == {"anthropic", "openai", "custom"}
EnvKeys == {"ANTHROPIC_API_KEY", "OPENAI_API_KEY"}
AnalysisOutcomes == {"YES", "NO", "UNCERTAIN"}
Confidences == {79, 80}                  \* confidence an AI answers
Agreements == {0, 1, 2}                  \* requiredAgreement arguments
MIN_CONFIDENCE == 80
CUSTOM_CONFIDENCE == 50

\* what analyses.find and analyses[0] answer when there is no such element
Undefined == [outcome |-> "undefined", confidence |-> 0]

\* the constructor: a client is made for the chosen provider only, and only
\* when its key is set
Construct(provider, keys) ==
  /\ aiProvider = provider
  /\ anthropic = (provider = "anthropic" /\ "ANTHROPIC_API_KEY" \in keys)
  /\ openai = (provider = "openai" /\ "OPENAI_API_KEY" \in keys)
  /\ broadcast = {}
  /\ flagged = {}
  /\ service_ret = "constructed"

Thrown == [thrown |-> TRUE, result |-> Undefined]

Returned(result) == [thrown |-> FALSE, result |-> result]

\* ai_result: the JSON the model answers; api_ok: whether the API call and
\* JSON.parse go through
analyzeWithClaude(ai_result, api_ok) ==
  IF ~anthropic THEN Thrown
  ELSE IF ~api_ok THEN Thrown
  ELSE Returned(ai_result)

analyzeWithOpenAI(ai_result, api_ok) ==
  IF ~openai THEN Thrown
  ELSE IF ~api_ok THEN Thrown
  ELSE Returned(ai_result)

analyzeWithCustomModel ==
  Returned([outcome |-> "UNCERTAIN", confidence |-> CUSTOM_CONFIDENCE])

analyzeWithAI(ai_result, api_ok) ==
  CASE aiProvider = "anthropic" -> analyzeWithClaude(ai_result, api_ok)
    [] aiProvider = "openai" -> analyzeWithOpenAI(ai_result, api_ok)
    [] aiProvider = "custom" -> analyzeWithCustomModel
    [] OTHER -> Thrown

outcomeValue(resolution) == IF resolution.outcome = "YES" THEN 1 ELSE 2

\* net_ok: whether makeContractCall and broadcastTransaction go through; an
\* undefined resolution throws at resolution.outcome, inside the try
submitResolution(marketId, resolution, net_ok) ==
  IF resolution = Undefined \/ ~net_ok
  THEN service_ret' = "thrown" /\ UNCHANGED broadcast
  ELSE /\ broadcast' = broadcast \cup
            {[functionName |-> "submit-resolution", marketId |-> marketId,
              outcomeValue |-> outcomeValue(resolution), analysis |-> resolution]}
       /\ service_ret' = "returned"

flagForManualReview(marketId, resolution) ==
  /\ flagged' = {[marketId |-> marketId, analysis |-> resolution]}
  /\ service_ret' = "returned"

resolveMarket(marketId, ai_result, api_ok, net_ok) ==
  LET resolution == analyzeWithAI(ai_result, api_ok) IN
  /\ IF resolution.thrown
     THEN service_ret' = "thrown" /\ UNCHANGED <<broadcast, flagged>>
     ELSE IF resolution.result.confidence < MIN_CONFIDENCE
     THEN flagForManualReview(marketId, resolution.result) /\ UNCHANGED broadcast
     ELSE submitResolution(marketId, resolution.result, net_ok) /\ UNCHANGED flagged
  /\ UNCHANGED <<aiProvider, anthropic, openai>>
  /\ UNCHANGED <<block_height, oracle_vars, market_vars, ret>>

\* analyses.find(a => a.outcome === outcome)
Find(analyses, outcome) ==
  LET hits == {i \in DOMAIN analyses : analyses[i].outcome = outcome} IN
  IF hits = {} THEN Undefined
  ELSE analyses[CHOOSE i \in hits : \A j \in hits : i <= j]

\* analyses.filter(a => a.outcome === outcome).length
Votes(analyses, outcome) ==
  Cardinality({i \in DOMAIN analyses : analyses[i].outcome = outcome})

resolveWithConsensus(marketId, requiredAgreement, claudeResult, claude_ok, gptResult, gpt_ok, net_ok) ==
  LET analyses == (IF anthropic /\ claude_ok THEN <<claudeResult>> ELSE <<>>)
                    \o (IF openai /\ gpt_ok THEN <<gptResult>> ELSE <<>>)
      yesVotes == Votes(analyses, "YES")
      noVotes == Votes(analyses, "NO")
  IN
  /\ IF yesVotes >= requiredAgreement
     THEN submitResolution(marketId, Find(analyses, "YES"), net_ok) /\ UNCHANGED flagged
     ELSE IF noVotes >= requiredAgreement
     THEN submitResolution(marketId, Find(analyses, "NO"), net_ok) /\ UNCHANGED flagged
     ELSE /\ flagForManualReview(marketId,
                IF analyses = <<>> THEN Undefined ELSE analyses[1])
          /\ UNCHANGED broadcast
  /\ UNCHANGED <<aiProvider, anthropic, openai>>
  /\ UNCHANGED <<block_height, oracle_vars, market_vars, ret>>

\* ==================================================================== chain
\* Heights advance by one block or by CHALLENGE-PERIOD - 1 blocks; a height
\* reached from 1 in i single steps and j long ones counts i + j advances.
Advances(h) ==
  ((h - 1) \div (CHALLENGE_PERIOD - 1)) + ((h - 1) % (CHALLENGE_PERIOD - 1))

AdvanceHeight(d) ==
  /\ Advances(block_height + d) <= MaxAdvances
  /\ block_height' = block_height + d
  /\ UNCHANGED <<oracle_vars, market_vars, service_vars, ret>>

\* ============================================================ specifications
\* The state after deployment: every map empty, every data-var at its
\* define-data-var value.
InitChain == block_height = 1 /\ ret = Ok("deploy", 1)

InitOracle ==
  /\ admin_roles = {}
  /\ resolution_votes = [m \in MarketIds |-> [p \in Signers |-> 0]]
  /\ vote_counts = [k \in MarketIds \X Sides |-> 0]
  /\ proposed_resolutions = [m \in MarketIds |-> NoResolution]
  /\ finalized_resolutions = {}
  /\ used_nonces = {}
  /\ challenged_once = {}

InitMarket ==
  /\ initialized = FALSE
  /\ market_id = "0x00"
  /\ ends_at = 0
  /\ created_at = 0
  /\ fee_bp = DEFAULT_FEE_BP
  /\ max_stake_per_user = DEFAULT_MAX_STAKE_PER_USER
  /\ max_total_pool = DEFAULT_MAX_TOTAL_POOL
  /\ current_state = STATE_ACTIVE
  /\ admin = OWNER
  /\ yes_pool = 0
  /\ no_pool = 0
  /\ fee_amount = 0
  /\ distributable_amount = 0
  /\ stakes = [k \in Users \X Sides |-> 0]
  /\ claimed = {}
  /\ token_balances = [k \in Users \X Sides |-> 0]
  /\ wallet = [a \in Users \cup {MARKET} |-> 0]
  /\ paid = [u \in Users |-> 0]
  /\ succeeded = {}

\* a service made for Anthropic with its key set
InitDefaultService == Construct("anthropic", {"ANTHROPIC_API_KEY"})

Init ==
  InitChain /\ InitOracle /\ InitMarket /\ resolver_roles = {} /\ InitDefaultService

\* Every public function of ai-oracle.clar, called by any of `callers` for
\* any of `markets` with any of `results` and any of `nonces`.
NextOracle(callers, markets, results, nonces) ==
  \/ \E voter \in callers, m \in markets, result \in results, nonce \in nonces :
       submit_resolution(voter, m, result, nonce)
  \/ \E m \in markets : finalize_resolution(m)
  \/ \E m \in markets : challenge_resolution(m)
  \/ \E caller \in callers, m \in markets, result \in results :
       admin_resolve(caller, m, result)

\* Every public function of market.clar; stake and claim by any of `stakers`
\* with any side argument and any of `amounts`.
NextMarket(stakers, amounts) ==
  \/ \E a \in AdminAddrs, m \in LedgerIds, e \in EndsAtValues, f \in FeeBpValues :
       initialize(a, m, e, f, MaxStakeInput, MaxPoolInput)
  \/ \E caller \in stakers, side \in Results, amount \in amounts,
        transfer_ok \in BOOLEAN :
       stake(caller, side, amount, transfer_ok)
  \/ lock_market
  \/ resolve_market
  \/ \E caller \in stakers, transfer_ok \in BOOLEAN : claim(caller, transfer_ok)
  \/ \E caller \in Users : cancel_market(caller)

NextChain(steps) == \E d \in steps : AdvanceHeight(d)

\* The two contracts together, from deployment.
Next ==
  \/ NextOracle({"owner", "alice"}, LedgerIds, Results, {1})
  \/ NextMarket({"alice", "bob"}, {0, 5})
  \/ NextChain({1})

Spec == Init /\ [][Next]_vars

\* The market contract alone (no entry point of it reads or writes the oracle).
Stakers == {"alice", "bob"}

NextLedger == NextMarket(Stakers, StakeAmounts) \/ NextChain({1})

SpecMarket == Init /\ [][NextLedger]_vars

\* The oracle alone, as deployed.
DeployedCallers == {"owner", "eve"}

DeployedNonces == {1, 2}

NextDeployed ==
  \/ NextOracle(DeployedCallers, MarketIds, Results, DeployedNonces)
  \/ NextChain({1})

SpecOracle == Init /\ [][NextDeployed]_vars

\* The oracle alone, with a resolver-roles table that holds Resolvers.
InitRoles ==
  InitChain /\ InitOracle /\ InitMarket /\ resolver_roles = Resolvers /\ InitDefaultService

\* ... four signers voting Yes or No on one market, with one nonce for each
Voters == {"owner", "alice", "bob", "carol"}

NextVoting ==
  \/ NextOracle(Voters, LedgerIds, Sides, 1..Cardinality(Voters))
  \/ NextChain({1, CHALLENGE_PERIOD - 1})

SpecRoles == InitRoles /\ [][NextVoting]_vars

\* ... two signers voting on two markets within one block (submit-resolution
\* reads block-height only to stamp the record it writes)
ReplayCallers == {"owner", "alice"}

NextReplay == NextOracle(ReplayCallers, MarketIds, Results, Nonces)

SpecReplay == InitRoles /\ [][NextReplay]_vars

\* ... the owner and every resolver voting Yes or No on one market within one
\* block, each signer with a nonce of its own
QuorumVoters == Resolvers \cup {OWNER}

SignerNonce(voter) ==
  CASE voter = "owner" -> 1 [] voter = "alice" -> 2 [] voter = "bob" -> 3
    [] voter = "carol" -> 4 [] voter = "dave" -> 5 [] voter = "erin" -> 6

NextQuorum ==
  \/ \E voter \in QuorumVoters, m \in LedgerIds, result \in Sides :
       submit_resolution(voter, m, result, SignerNonce(voter))
  \/ \E m \in LedgerIds : finalize_resolution(m)
  \/ \E m \in LedgerIds : challenge_resolution(m)
  \/ \E caller \in {OWNER, "alice"}, m \in LedgerIds, result \in Sides :
       admin_resolve(caller, m, result)

SpecQuorum == InitRoles /\ [][NextQuorum]_vars

\* ... three callers, one of them the admin, with any result argument
OverrideCallers == {"owner", "alice", "bob"}

NextOverride ==
  \/ NextOracle(OverrideCallers, LedgerIds, Results, 1..Cardinality(OverrideCallers))
  \/ NextChain({1, CHALLENGE_PERIOD - 1})

SpecOverride == InitRoles /\ [][NextOverride]_vars

\* ... four signers voting on one market while the chain runs on: besides the
\* counted advances, the height reaches the deadline of a record that waits
\* for it.  Weak fairness of that advance and of the finalize-resolution call
\* that answers (ok true).
AdvanceToDeadline(m) ==
  /\ proposed_resolutions[m].some
  /\ ~is_resolution_finalized(m)
  /\ block_height < proposed_resolutions[m].challenge_deadline
  /\ block_height' = proposed_resolutions[m].challenge_deadline
  /\ UNCHANGED <<oracle_vars, market_vars, service_vars, ret>>

NextLive ==
  \/ \E voter \in Voters, m \in LedgerIds, result \in Sides :
       submit_resolution(voter, m, result, SignerNonce(voter))
  \/ \E m \in LedgerIds : finalize_resolution(m)
  \/ \E m \in LedgerIds : challenge_resolution(m)
  \/ \E m \in LedgerIds, result \in Sides : admin_resolve(OWNER, m, result)
  \/ NextChain({1})
  \/ \E m \in LedgerIds : AdvanceToDeadline(m)

SpecLive ==
  /\ InitRoles
  /\ [][NextLive]_vars
  /\ WF_vars(\E m \in LedgerIds : AdvanceToDeadline(m))
  /\ \A m \in LedgerIds : WF_vars(finalize_resolution(m) /\ ret'.ok)

\* The resolution service alone, made for any provider with any keys set.
InitService ==
  /\ InitChain /\ InitOracle /\ InitMarket /\ resolver_roles = {}
  /\ \E provider \in AIProviders, keys \in SUBSET EnvKeys : Construct(provider, keys)

AnalysisResults == [outcome : AnalysisOutcomes, confidence : Confidences]

NextService ==
  \/ \E marketId \in LedgerIds, ai_result \in AnalysisResults,
        api_ok \in BOOLEAN, net_ok \in BOOLEAN :
       resolveMarket(marketId, ai_result, api_ok, net_ok)
  \/ \E marketId \in LedgerIds, requiredAgreement \in Agreements,
        claudeResult \in AnalysisResults, claude_ok \in BOOLEAN,
        gptResult \in AnalysisResults, gpt_ok \in BOOLEAN, net_ok \in BOOLEAN :
       resolveWithConsensus(marketId, requiredAgreement, claudeResult, claude_ok,
                            gptResult, gpt_ok, net_ok)

SpecService == InitService /\ [][NextService]_vars

\* ==================================================================== claims
RECURSIVE SumOver(_, _)
SumOver(f, S) ==
  IF S = {} THEN 0
  ELSE LET x == CHOOSE y \in S : TRUE IN f[x] + SumOver(f, S \ {x})

SideStakes(side) == [u \in Users |-> stakes[<<u, side>>]]

OtherSide(side) == IF side = SIDE_YES THEN SIDE_NO ELSE SIDE_YES

PoolOf(side) == IF side = SIDE_YES THEN yes_pool ELSE no_pool

\* the oracle has finalized verdict v for the market this ledger was bound to
FinalVerdictIs(v) ==
  initialized /\ get_resolution(market_id) = [ok |-> TRUE, val |-> v]

\* C1: whenever the (initialized) ledger is Resolved, the oracle reports its
\* market id as finalized.
C1_ResolvedImpliesFinalized ==
  (initialized /\ current_state = STATE_RESOLVED)
    => is_resolution_finalized(market_id)

\* C2: claim takes the winning side from the oracle's finalized verdict: with
\* verdict v, a first claim on the Resolved market by a caller staked only on
\* the other side answers NoStake, and one by a caller staked only on v
\* answers floor(stake * distributable / pool of v), the token's transfer
\* succeeding.
C2_ClaimFollowsVerdict ==
  [][ret'.op = "claim" =>
     \A u \in Users, transfer_ok \in {TRUE}, v \in Sides :
       (/\ FinalVerdictIs(v)
        /\ current_state = STATE_RESOLVED
        /\ ~has_claimed(u)
        /\ claim(u, transfer_ok))
       => /\ (stakes[<<u, v>>] = 0 /\ stakes[<<u, OtherSide(v)>>] > 0)
               => ret' = Err("claim", M_ERR_NO_STAKE)
          /\ (stakes[<<u, v>>] > 0 /\ stakes[<<u, OtherSide(v)>>] = 0 /\ transfer_ok)
               => /\ ret' = Ok("claim", Payout(stakes[<<u, v>>],
                                              distributable_amount, PoolOf(v)))
                  /\ paid'[u] = ret'.val
    ]_vars

\* C3: each pool equals the sum of the recorded stakes on its side, in every
\* reachable state (so after any sequence of accepted and rejected stakes).
C3_PoolsEqualStakes ==
  /\ yes_pool = SumOver(SideStakes(SIDE_YES), Users)
  /\ no_pool = SumOver(SideStakes(SIDE_NO), Users)
  /\ yes_pool + no_pool =
       SumOver(SideStakes(SIDE_YES), Users) + SumOver(SideStakes(SIDE_NO), Users)

\* two users hold stakes on different sides and the last stake was rejected
C3_Witness ==
  /\ ret = Err("stake", M_ERR_EXCEEDS_USER_LIMIT)
  /\ \E u1 \in Users : \E u2 \in Users \ {u1} :
       stakes[<<u1, SIDE_YES>>] > 0 /\ stakes[<<u2, SIDE_NO>>] > 0

\* C4: the payouts handed out by claim sum to at most distributable-amount,
\* and no more than that has left the market's custody.
C4_PayoutsWithinDistributable ==
  /\ SumOver(paid, Users) <= distributable_amount
  /\ (yes_pool + no_pool) - wallet[MARKET] <= distributable_amount

\* two users have claimed from a pool with a fee, and truncation left dust
C4_Witness ==
  /\ current_state = STATE_RESOLVED
  /\ Cardinality(claimed) >= 2
  /\ fee_amount > 0
  /\ \A u \in claimed : paid[u] > 0
  /\ SumOver(paid, Users) < distributable_amount

\* C5: the claimed flag is never cleared, and a claim by a user whose flag is
\* set answers AlreadyClaimed and changes nothing of the market.
C5_NoDoubleClaim ==
  [][/\ claimed \subseteq claimed'
     /\ ret'.op = "claim" =>
        \A u \in claimed, transfer_ok \in BOOLEAN :
          claim(u, transfer_ok)
            => /\ ret' = Err("claim", M_ERR_ALREADY_CLAIMED)
               /\ UNCHANGED market_vars
    ]_vars

\* a user who had claimed called claim again
C5_Witness ==
  /\ ret = Err("claim", M_ERR_ALREADY_CLAIMED)
  /\ claimed # {}

\* C6: with verdict v finalized, a first claim on the Resolved market by a
\* caller with no stake on v answers NoStake, sets no flag and pays nothing
\* (the token's transfer would succeed).
C6_NoStakeOnWinningSide ==
  [][ret'.op = "claim" =>
     \A u \in Users, transfer_ok \in {TRUE}, v \in Sides :
       (/\ FinalVerdictIs(v)
        /\ current_state = STATE_RESOLVED
        /\ ~has_claimed(u)
        /\ stakes[<<u, v>>] = 0
        /\ claim(u, transfer_ok))
       => /\ ret' = Err("claim", M_ERR_NO_STAKE)
          /\ UNCHANGED <<claimed, paid, wallet, token_balances>>
    ]_vars

\* C7: a consumed nonce stays consumed, and a submit-resolution that carries
\* one is rejected and leaves the oracle as it was, whatever its market,
\* verdict and caller: no step that accepts a vote, or changes the oracle at
\* all, is a submit-resolution with a nonce of the set.
C7_NonceWriteOnce ==
  [][/\ used_nonces \subseteq used_nonces'
     /\ (ret'.op = "submit-resolution" /\ (ret'.ok \/ oracle_vars' # oracle_vars)) =>
        \A voter \in ReplayCallers, m \in MarketIds, result \in Results,
           nonce \in used_nonces :
          ~submit_resolution(voter, m, result, nonce)
    ]_vars

\* a vote is recorded for one market only and a call was rejected for its nonce
C7_Witness ==
  /\ ret = Err("submit-resolution", O_ERR_NONCE_USED)
  /\ \E m \in MarketIds : \A p \in Signers : resolution_votes[m][p] = 0
  /\ \E m \in MarketIds : \E p \in Signers : resolution_votes[m][p] # 0

\* the error C8 names for a rejected submit-resolution by a signer who has
\* voted for m (finalized_first: AlreadyResolved takes precedence)
RevoteError(m, result, nonce, finalized_first) ==
  /\ (nonce \notin used_nonces /\ result \in Sides
        /\ (finalized_first => ~is_resolution_finalized(m)))
       => ret' = Err("submit-resolution", O_ERR_ALREADY_VOTED)
  /\ (finalized_first /\ is_resolution_finalized(m))
       => ret' = Err("submit-resolution", O_ERR_ALREADY_RESOLVED)

\* no step that accepts a vote or changes a counter or a recorded vote is a
\* submit-resolution by a signer who has voted for its market, and a rejected
\* one answers the error RevoteError names
NoRevote(finalized_first) ==
  /\ (ret'.ok \/ vote_counts' # vote_counts \/ resolution_votes' # resolution_votes)
       => \A voter \in ReplayCallers, m \in MarketIds :
            has_user_voted(m, voter)
              => \A result \in Results, nonce \in Nonces :
                   ~submit_resolution(voter, m, result, nonce)
  /\ ~ret'.ok
       => \A voter \in ReplayCallers, m \in MarketIds :
            has_user_voted(m, voter)
              => \A result \in Results, nonce \in Nonces :
                   \/ RevoteError(m, result, nonce, finalized_first)
                   \/ ~submit_resolution(voter, m, result, nonce)

\* C8 as stated: a signer with a recorded vote for a market is rejected on
\* every later submit-resolution for it, with AlreadyVoted whenever the nonce
\* is fresh and the verdict valid, and the counters stay as they were.
C8_Original ==
  [][ret'.op = "submit-resolution" => NoRevote(FALSE)]_vars

\* C8 amended: ... with AlreadyVoted whenever the market is not finalized, the
\* nonce is fresh and the verdict valid, and with AlreadyResolved whenever the
\* market is finalized.
C8_NoSecondVote ==
  [][ret'.op = "submit-resolution" => NoRevote(TRUE)]_vars

\* a second vote with a fresh nonce was rejected while a nonce was still free
C8_Witness ==
  /\ ret = Err("submit-resolution", O_ERR_ALREADY_VOTED)
  /\ used_nonces # Nonces
  /\ finalized_resolutions = {}

\* no record for a market whose counters are both below the threshold, unless
\* admin-resolve wrote one (which finalizes the market in the same step)
NoRecordBelowThreshold ==
  \A m \in MarketIds :
    (/\ get_vote_count(m, SIDE_YES) < REQUIRED_CONFIRMATIONS
     /\ get_vote_count(m, SIDE_NO) < REQUIRED_CONFIRMATIONS
     /\ ~is_resolution_finalized(m))
    => ~proposed_resolutions[m].some

\* C9: the accepted vote that raises a counter from 2 to 3 at height h writes
\* the record (verdict, proposer = caller, challenged = false, deadline =
\* h + 144) in the same step; below the threshold and without admin-resolve
\* there is no record.
C9_ThirdVoteProposes ==
  /\ NoRecordBelowThreshold
  /\ [][/\ NoRecordBelowThreshold'
        /\ (ret'.op = "submit-resolution" /\ ret'.ok) =>
           \A voter \in Voters, m \in LedgerIds, result \in Sides,
              nonce \in 1..Cardinality(Voters) :
             (/\ get_vote_count(m, result) = REQUIRED_CONFIRMATIONS - 1
              /\ submit_resolution(voter, m, result, nonce)
              /\ ret'.ok)
             => /\ proposed_resolutions'[m].some
                /\ proposed_resolutions'[m].result = result
                /\ proposed_resolutions'[m].proposer = voter
                /\ proposed_resolutions'[m].challenged = FALSE
                /\ proposed_resolutions'[m].challenge_deadline =
                     block_height + CHALLENGE_PERIOD
       ]_vars

\* the third vote for one verdict has just been accepted, after an advance
C9_Witness ==
  /\ ret = Ok("submit-resolution", 1)
  /\ block_height > 1
  /\ \E m \in MarketIds, side \in Sides :
       /\ get_vote_count(m, side) = REQUIRED_CONFIRMATIONS
       /\ proposed_resolutions[m].some
       /\ proposed_resolutions[m].result = side
       /\ proposed_resolutions[m].timestamp = block_height
       /\ proposed_resolutions[m].challenge_deadline = block_height + CHALLENGE_PERIOD
       /\ ~is_resolution_finalized(m)

C12_ChallengeBoundary ==
  [][ret'.op = "challenge-resolution" =>
     \A m \in LedgerIds :
       LET r == proposed_resolutions[m] IN
       (r.some /\ ~is_resolution_finalized(m) /\ challenge_resolution(m))
       => /\ block_height < r.challenge_deadline
               => /\ ret' = Ok("challenge-resolution", 1)
                  /\ proposed_resolutions'[m] = [r EXCEPT !.challenged = TRUE]
          /\ block_height >= r.challenge_deadline
               => /\ ret' = Err("challenge-resolution", O_ERR_CHALLENGE_EXPIRED)
                  /\ UNCHANGED oracle_vars
    ]_vars

\* a challenge was rejected at exactly the deadline of a record that an
\* earlier challenge had marked
C12_Witness ==
  /\ ret = Err("challenge-resolution", O_ERR_CHALLENGE_EXPIRED)
  /\ \E m \in LedgerIds :
       /\ proposed_resolutions[m].some
       /\ proposed_resolutions[m].challenged
       /\ block_height = proposed_resolutions[m].challenge_deadline
       /\ ~is_resolution_finalized(m)

\* the four conditions C13 names
FinalizeAllowed(m) ==
  /\ proposed_resolutions[m].some
  /\ ~is_resolution_finalized(m)
  /\ block_height >= proposed_resolutions[m].challenge_deadline
  /\ ~proposed_resolutions[m].challenged

\* C13: finalize-resolution answers (ok true), and sets the finalized flag,
\* exactly when a record exists, the market is not finalized, the height has
\* reached the deadline and the record is not challenged; otherwise it is
\* rejected and changes nothing.
C13_FinalizeExactly ==
  [][ret'.op = "finalize-resolution" =>
     \A m \in LedgerIds :
       finalize_resolution(m)
       => /\ ret'.ok <=> FinalizeAllowed(m)
          /\ ret'.ok => finalized_resolutions' = finalized_resolutions \cup {m}
          /\ ~ret'.ok => UNCHANGED oracle_vars
    ]_vars

\* finalize was rejected past the deadline of a challenged record
C13_Witness ==
  /\ ret = Err("finalize-resolution", O_ERR_INVALID_RESULT)
  /\ \E m \in LedgerIds :
       /\ proposed_resolutions[m].some
       /\ proposed_resolutions[m].challenged
       /\ block_height >= proposed_resolutions[m].challenge_deadline
       /\ ~is_resolution_finalized(m)

C15_AdminOverride ==
  [][ret'.op = "admin-resolve" =>
     \A caller \in OverrideCallers, m \in LedgerIds, v \in Results :
       admin_resolve(caller, m, v)
       => IF has_admin_role(caller) /\ v \in Sides
          THEN /\ ret' = Ok("admin-resolve", 1)
               /\ proposed_resolutions'[m].some
               /\ proposed_resolutions'[m].result = v
               /\ proposed_resolutions'[m].challenge_deadline = block_height
               /\ proposed_resolutions'[m].challenged = FALSE
               /\ m \in finalized_resolutions'
          ELSE /\ ~ret'.ok
               /\ UNCHANGED oracle_vars
    ]_vars

\* the admin has overridden, after an advance, a market that three votes
\* had proposed
C15_Witness ==
  /\ ret = Ok("admin-resolve", 1)
  /\ block_height > 1
  /\ \E m \in LedgerIds, side \in Sides :
       /\ get_vote_count(m, side) = REQUIRED_CONFIRMATIONS
       /\ proposed_resolutions[m].proposer = OWNER
       /\ proposed_resolutions[m].result = OtherSide(side)
       /\ proposed_resolutions[m].challenge_deadline = block_height
       /\ is_resolution_finalized(m)

\* C16: no step removes a market from the finalized ones.
C16_FinalizedForever ==
  [][finalized_resolutions \subseteq finalized_resolutions']_vars

\* a call was made for a market after its finalization, at a later height
C16_Witness ==
  /\ ret = Err("submit-resolution", O_ERR_ALREADY_RESOLVED)
  /\ \E m \in LedgerIds :
       /\ is_resolution_finalized(m)
       /\ block_height > proposed_resolutions[m].challenge_deadline

\* C17: every submit-resolution, challenge-resolution and finalize-resolution
\* for a finalized market is rejected and leaves the oracle (votes, counters,
\* record) as it was: no step that is accepted, or changes the oracle, is one
\* of the three for a finalized market.
C17_FinalizedIsClosed ==
  [][(/\ ret'.op \in {"submit-resolution", "challenge-resolution",
                      "finalize-resolution"}
      /\ (ret'.ok \/ oracle_vars' # oracle_vars)) =>
     \A m \in finalized_resolutions \cap LedgerIds :
       /\ \A voter \in Voters, result \in Sides, nonce \in 1..Cardinality(Voters) :
            ~submit_resolution(voter, m, result, nonce)
       /\ ~challenge_resolution(m)
       /\ ~finalize_resolution(m)
    ]_vars

\* a second finalize was rejected for a market the optimistic path finalized
C17_Witness ==
  /\ ret = Err("finalize-resolution", O_ERR_ALREADY_RESOLVED)
  /\ \E m \in LedgerIds :
       /\ is_resolution_finalized(m)
       /\ proposed_resolutions[m].challenge_deadline
            = proposed_resolutions[m].timestamp + CHALLENGE_PERIOD

\* C18: with verdict v finalized, a claim that answers (ok payout) answers
\* floor(caller's stake on v * distributable-amount / pool of v) and hands
\* that amount to the token transfer.
C18_PayoutFormula ==
  [][(ret'.op = "claim" /\ ret'.ok) =>
     \A u \in Users, v \in Sides :
       (FinalVerdictIs(v) /\ claim(u, TRUE))
       => /\ PoolOf(v) > 0
          /\ ret'.val = Payout(stakes[<<u, v>>], distributable_amount, PoolOf(v))
          /\ paid'[u] = ret'.val
    ]_vars

\* C19: on an initialized Active market, a stake with a valid side, a
\* positive amount and both limits respected answers (ok true) and records
\* the stake at every height below ends-at (the token's transfer succeeding);
\* from ends-at on, locked or not, no step that answers anything but
\* MarketEnded, or changes the market, is such a stake.
C19_StakeDeadline ==
  [][/\ (/\ ret'.op = "stake"
         /\ initialized /\ current_state = STATE_ACTIVE /\ block_height < ends_at) =>
        \A u \in Users, side \in Sides, amount \in StakeAmounts \ {0} :
          (/\ get_user_stake(u, side) + amount <= max_stake_per_user
           /\ (yes_pool + no_pool) + amount <= max_total_pool
           /\ stake(u, side, amount, TRUE))
          => /\ ret' = Ok("stake", 1)
             /\ stakes'[<<u, side>>] = stakes[<<u, side>>] + amount
     /\ (/\ ret'.op = "stake"
         /\ initialized /\ current_state = STATE_ACTIVE /\ block_height >= ends_at
         /\ (ret' # Err("stake", M_ERR_MARKET_ENDED) \/ market_vars' # market_vars)) =>
        \A u \in Users, side \in Sides, amount \in StakeAmounts \ {0},
           transfer_ok \in BOOLEAN :
          (/\ get_user_stake(u, side) + amount <= max_stake_per_user
           /\ (yes_pool + no_pool) + amount <= max_total_pool)
          => ~stake(u, side, amount, transfer_ok)
    ]_vars

\* a stake was rejected at exactly ends-at on a market that is still Active
\* and holds a stake accepted before
C19_Witness ==
  /\ ret = Err("stake", M_ERR_MARKET_ENDED)
  /\ initialized
  /\ current_state = STATE_ACTIVE
  /\ block_height = ends_at
  /\ yes_pool + no_pool > 0

\* C20: cancel-market by an admin answers (ok true) from Active, Locked and
\* Resolving and leaves the state Canceled; it answers AlreadyResolved from
\* Resolved, an error from Canceled, and NotAuthorized for any other caller,
\* and a rejected call changes nothing.
C20_CancelMarket ==
  [][ret'.op = "cancel-market" =>
     \A caller \in Users :
       cancel_market(caller)
       => IF ~is_admin(caller)
          THEN /\ ret' = Err("cancel-market", M_ERR_NOT_AUTHORIZED)
               /\ UNCHANGED market_vars
          ELSE IF current_state = STATE_RESOLVED
          THEN /\ ret' = Err("cancel-market", M_ERR_ALREADY_RESOLVED)
               /\ UNCHANGED market_vars
          ELSE IF current_state = STATE_CANCELED
          THEN /\ ~ret'.ok
               /\ UNCHANGED market_vars
          ELSE current_state \in {STATE_ACTIVE, STATE_LOCKED, STATE_RESOLVING}
               => /\ ret' = Ok("cancel-market", 1)
                  /\ current_state' = STATE_CANCELED
    ]_vars

\* an admin's cancel was rejected on a Resolved market that holds stakes
C20_Witness ==
  /\ ret = Err("cancel-market", M_ERR_ALREADY_RESOLVED)
  /\ current_state = STATE_RESOLVED
  /\ initialized
  /\ yes_pool + no_pool > 0

\* C21: a call of either contract that answers an error leaves every map and
\* data-var of both contracts as it was.
C21_AllOrNothing ==
  [][~ret'.ok => UNCHANGED <<oracle_vars, market_vars>>]_vars

\* a claim whose checks and burn passed was rejected for its transfer, on a
\* market whose id the oracle has finalized
C21_Witness ==
  /\ ret = Err("claim", 1)
  /\ current_state = STATE_RESOLVED
  /\ yes_pool > 0
  /\ initialized
  /\ is_resolution_finalized(market_id)

\* C22: a stake or claim whose checks pass and whose token transfer fails
\* answers an error and changes nothing of the market.  For stake: no step
\* that answers ok, or changes the market, is such a stake.  For claim: the
\* rejected call leaves the claimed flag unset and the position unburned, and
\* the caller still passes claim's checks.
C22_TransferFailure ==
  [][/\ (ret'.op = "stake" /\ (ret'.ok \/ market_vars' # market_vars)) =>
        \A u \in Users, side \in Sides, amount \in StakeAmounts :
          StakeCheck(u, side, amount) = 0 => ~stake(u, side, amount, FALSE)
     /\ (ret'.op = "claim" /\ ~ret'.ok) =>
        \A u \in Users :
          (/\ ClaimCheck(u) = 0
           /\ BurnOk(u, winning_side, get_user_stake(u, winning_side))
           /\ claim(u, FALSE))
          => /\ u \notin claimed'
             /\ token_balances' = token_balances
             /\ UNCHANGED market_vars
             /\ (ClaimCheck(u) = 0)'
    ]_vars

\* a claim was rejected for its transfer and its caller is still unclaimed,
\* with the position unburned
C22_Witness ==
  /\ ret = Err("claim", 1)
  /\ current_state = STATE_RESOLVED
  /\ \E u \in Users :
       /\ ~has_claimed(u)
       /\ stakes[<<u, winning_side>>] > 0
       /\ token_balances[<<u, winning_side>>] = stakes[<<u, winning_side>>]

\* the response C23 names: the error of the first failing precondition
FirstFailure(voter, m, result, nonce) ==
  IF is_resolution_finalized(m)
  THEN Err("submit-resolution", O_ERR_ALREADY_RESOLVED)
  ELSE IF result \notin Sides
  THEN Err("submit-resolution", O_ERR_INVALID_RESULT)
  ELSE IF nonce \in used_nonces
  THEN Err("submit-resolution", O_ERR_NONCE_USED)
  ELSE IF resolution_votes[m][voter] # 0
  THEN Err("submit-resolution", O_ERR_ALREADY_VOTED)
  ELSE IF ~(voter = OWNER \/ voter \in admin_roles \/ voter \in resolver_roles)
  THEN Err("submit-resolution", O_ERR_NOT_AUTHORIZED)
  ELSE Ok("submit-resolution", 1)

\* C23: submit-resolution answers the error of the first precondition that
\* fails in the order finalized, verdict, nonce, voted, capability.
C23_SubmitCheckOrder ==
  [][ret'.op = "submit-resolution" =>
     \A voter \in DeployedCallers, m \in MarketIds, result \in Results,
        nonce \in DeployedNonces :
       submit_resolution(voter, m, result, nonce)
         => ret' = FirstFailure(voter, m, result, nonce)
    ]_vars

\* a call with a consumed nonce was answered NonceUsed while no market is
\* finalized and callers without capability exist
C23_Witness ==
  /\ ret = Err("submit-resolution", O_ERR_NONCE_USED)
  /\ used_nonces # {}
  /\ finalized_resolutions = {}
  /\ \E voter \in DeployedCallers : ~has_resolver_role(voter)

\* C24: initialized is never reset; initialize is rejected, changing nothing,
\* when the market is initialized, when ends-at is not above the height or
\* when fee-bp is above 1000, and otherwise answers (ok true) and leaves the
\* market initialized and Active.
C24_InitializeOnce ==
  [][/\ initialized => initialized'
     /\ ret'.op = "initialize" =>
        \A a \in AdminAddrs, m \in LedgerIds, e \in EndsAtValues, f \in FeeBpValues :
          initialize(a, m, e, f, MaxStakeInput, MaxPoolInput)
          => IF initialized \/ ~(e > block_height) \/ f > 1000
             THEN /\ ~ret'.ok
                  /\ UNCHANGED market_vars
             ELSE /\ ret' = Ok("initialize", 1)
                  /\ initialized'
                  /\ current_state' = STATE_ACTIVE
    ]_vars

\* a second initialize was rejected
C24_Witness ==
  /\ ret = Err("initialize", M_ERR_ALREADY_INITIALIZED)
  /\ initialized

\* C25: a resolve-market that answers (ok true) started in Locked or
\* Resolving at a height >= ends-at, ends in Resolved, and leaves fee-amount =
\* floor(total pool * fee-bp / 10000) and distributable-amount = total pool -
\* fee-amount, which sum to yes-pool + no-pool.
C25_ResolveAmounts ==
  [][(ret'.op = "resolve-market" /\ ret'.ok) =>
     (resolve_market
      => /\ current_state \in {STATE_LOCKED, STATE_RESOLVING}
         /\ block_height >= ends_at
         /\ current_state' = STATE_RESOLVED
         /\ fee_amount' = ((yes_pool + no_pool) * fee_bp) \div 10000
         /\ distributable_amount' = (yes_pool + no_pool) - fee_amount'
         /\ distributable_amount' + fee_amount' = yes_pool' + no_pool')
    ]_vars

\* resolve-market has just set a positive fee
C25_Witness ==
  /\ ret = Ok("resolve-market", 1)
  /\ initialized
  /\ fee_amount > 0
  /\ distributable_amount > 0

\* C26: the position balance of every user who has not claimed equals the
\* recorded stake, on both sides; with verdict v finalized, a claim that
\* answers (ok payout) lowers the caller's position on v by the stake on v, to
\* zero, and changes no other balance.
C26_PositionMirrorsStake ==
  [][/\ \A u \in Users \ claimed', side \in Sides :
          token_balances'[<<u, side>>] = stakes'[<<u, side>>]
     /\ (ret'.op = "claim" /\ ret'.ok) =>
        \A u \in Users, v \in Sides :
          (FinalVerdictIs(v) /\ claim(u, TRUE))
          => /\ token_balances'[<<u, v>>] = token_balances[<<u, v>>] - stakes[<<u, v>>]
             /\ token_balances'[<<u, v>>] = 0
             /\ \A k \in DOMAIN token_balances \ {<<u, v>>} :
                  token_balances'[k] = token_balances[k]
    ]_vars

\* C27: once resolve-market has answered (ok true), no step changes fee-amount
\* or distributable-amount.
C27_AmountsWrittenOnce ==
  []["resolve-market" \in succeeded
       => UNCHANGED <<fee_amount, distributable_amount>>]_vars

\* C28: on an initialized market every recorded stake is within
\* max-stake-per-user and the two pools together within max-total-pool (after
\* every step that changes the configuration, a stake or a pool); the
\* limits do not change; no step that answers ok or changes the market (so
\* none that moves value) is a stake that would exceed a limit, and such a
\* stake is answered ExceedsUserLimit or ExceedsPoolLimit when the checks
\* before them pass.
C28_LimitsHold ==
  [][/\ (initialized' /\ <<config_vars, stake_vars>>' # <<config_vars, stake_vars>>) =>
          /\ \A u \in Users, side \in Sides :
               stakes'[<<u, side>>] <= max_stake_per_user'
          /\ yes_pool' + no_pool' <= max_total_pool'
     /\ initialized => UNCHANGED <<max_stake_per_user, max_total_pool>>
     /\ (ret'.op = "stake" /\ initialized /\ (ret'.ok \/ market_vars' # market_vars)) =>
        \A u \in Users, side \in Sides, amount \in StakeAmounts,
           transfer_ok \in BOOLEAN :
          (\/ stakes[<<u, side>>] + amount > max_stake_per_user
           \/ (yes_pool + no_pool) + amount > max_total_pool)
          => ~stake(u, side, amount, transfer_ok)
     /\ (/\ ret'.op = "stake" /\ ~ret'.ok
         /\ initialized /\ current_state = STATE_ACTIVE /\ block_height < ends_at) =>
        \A u \in Users, side \in Sides, amount \in StakeAmounts \ {0},
           transfer_ok \in BOOLEAN :
          LET over_user == stakes[<<u, side>>] + amount > max_stake_per_user
              over_pool == (yes_pool + no_pool) + amount > max_total_pool
          IN
          ((over_user \/ over_pool) /\ stake(u, side, amount, transfer_ok))
          => ret' = Err("stake", IF over_user THEN M_ERR_EXCEEDS_USER_LIMIT
                                 ELSE M_ERR_EXCEEDS_POOL_LIMIT)
    ]_vars

\* a stake within the user limit was rejected for the pool limit
C28_Witness ==
  /\ ret = Err("stake", M_ERR_EXCEEDS_POOL_LIMIT)
  /\ initialized
  /\ yes_pool + no_pool > max_total_pool - MaxStakeInput

\* C29: no step changes or removes a recorded vote, and no step lowers a
\* vote counter.
C29_VotesAppendOnly ==
  [][/\ \A m \in MarketIds, p \in Signers :
          resolution_votes[m][p] # 0
            => resolution_votes'[m][p] = resolution_votes[m][p]
     /\ \A k \in DOMAIN vote_counts : vote_counts'[k] >= vote_counts[k]
    ]_vars

\* the admin has overridden, with the other verdict, a market on which three
\* votes are recorded
C29_Witness ==
  /\ ret = Ok("admin-resolve", 1)
  /\ \E m \in LedgerIds, side \in Sides :
       /\ get_vote_count(m, side) >= REQUIRED_CONFIRMATIONS
       /\ Cardinality({p \in Signers : resolution_votes[m][p] = side})
            >= REQUIRED_CONFIRMATIONS
       /\ proposed_resolutions[m].result = OtherSide(side)

\* C30: lock-market answers (ok true) exactly when the state is Active and the
\* height has reached ends-at, and then leaves the state Locked; it answers
\* MarketNotEnded below ends-at, is rejected in every other state, changes
\* nothing when rejected, and never answers (ok true) a second time.
C30_LockOnce ==
  [][ret'.op = "lock-market" =>
     (lock_market
      => /\ ret'.ok <=> (current_state = STATE_ACTIVE /\ block_height >= ends_at)
         /\ ret'.ok => current_state' = STATE_LOCKED
         /\ block_height < ends_at => ret' = Err("lock-market", M_ERR_MARKET_NOT_ENDED)
         /\ current_state # STATE_ACTIVE => ~ret'.ok
         /\ ~ret'.ok => UNCHANGED market_vars
         /\ ret'.ok => "lock-market" \notin succeeded)
    ]_vars

\* C31: every record that is written for a market leads to a state where the
\* market is finalized or the record is challenged: an unchallenged proposal is
\* eventually finalized, under weak fairness of the height advance and of the
\* finalize call.
C31_FinalizeIsLive ==
  \A m \in LedgerIds :
    proposed_resolutions[m].some
      ~> (is_resolution_finalized(m) \/ proposed_resolutions[m].challenged)

\* finalize-resolution has finalized a record whose deadline a fourth vote had
\* postponed
C31_Witness ==
  /\ ret = Ok("finalize-resolution", 1)
  /\ \E m \in LedgerIds, side \in Sides :
       /\ is_resolution_finalized(m)
       /\ get_vote_count(m, side) = REQUIRED_CONFIRMATIONS + 1
       /\ ~proposed_resolutions[m].challenged
       /\ block_height = proposed_resolutions[m].challenge_deadline
       /\ proposed_resolutions[m].timestamp > 1

\* C32: once a market is finalized, get-resolution answers the same verdict
\* after every step, an admin-resolve for the finalized market included.
C32_VerdictStable ==
  [][\A m \in MarketIds :
       is_resolution_finalized(m) => get_resolution(m)' = get_resolution(m)
    ]_vars

\* C33: lock-market, resolve-market and cancel-market are rejected while the
\* market is not initialized; a state other than Active is reached only by an
\* initialized market; and an initialize that answers (ok true) started from
\* Active.
C33_NoLifecycleBeforeInitialize ==
  [][/\ (~initialized /\ ret'.op \in {"lock-market", "resolve-market", "cancel-market"})
          => ~ret'.ok
     /\ current_state' # STATE_ACTIVE => initialized'
     /\ (ret'.op = "initialize" /\ ret'.ok) => current_state = STATE_ACTIVE
    ]_vars

\* the transitions C34 names
Forward(from, to) ==
  \/ to = from
  \/ from = STATE_ACTIVE /\ to = STATE_LOCKED
  \/ from = STATE_LOCKED /\ to = STATE_RESOLVED
  \/ from \in {STATE_ACTIVE, STATE_LOCKED} /\ to = STATE_CANCELED

\* C34: on an initialized market every step leaves the state as it was or moves
\* it Active -> Locked, Locked -> Resolved, or Active or Locked -> Canceled (so
\* Resolved and Canceled are never left), and no step ends in Resolving or
\* Disputed.
C34_ForwardOnly ==
  [][/\ current_state' \notin {STATE_RESOLVING, STATE_DISPUTED}
     /\ initialized => Forward(current_state, current_state')
    ]_vars

\* an admin has canceled an initialized market that holds stakes, after its
\* end height and its lock
C34_Witness ==
  /\ ret = Ok("cancel-market", 1)
  /\ current_state = STATE_CANCELED
  /\ initialized
  /\ yes_pool + no_pool > 0
  /\ block_height >= ends_at
  /\ succeeded = {"lock-market"}

\* the signers whose recorded vote for m is side
VotersFor(m, side) == {p \in Signers : resolution_votes[m][p] = side}

\* C35: for every market and side, the vote counter equals the number of
\* signers whose recorded vote for that market is that side.
C35_CountersMatchLedger ==
  \A m \in MarketIds, side \in Sides :
    get_vote_count(m, side) = Cardinality(VotersFor(m, side))

\* three signers have voted one verdict and a fourth the other, and the admin
\* has overridden the market
C35_Witness ==
  /\ ret = Ok("admin-resolve", 1)
  /\ \E m \in LedgerIds, side \in Sides :
       /\ get_vote_count(m, side) = REQUIRED_CONFIRMATIONS
       /\ get_vote_count(m, OtherSide(side)) = 1
       /\ Cardinality(VotersFor(m, OtherSide(side))) = 1
       /\ is_resolution_finalized(m)

\* C36: every record's verdict is Yes or No, every finalized market has a
\* record, and get-resolution answers (ok verdict) with a verdict Yes or No
\* when the market is finalized and NotFinalized when it is not.
C36_RecordsValid ==
  \A m \in MarketIds :
    /\ proposed_resolutions[m].some => proposed_resolutions[m].result \in Sides
    /\ is_resolution_finalized(m) => proposed_resolutions[m].some
    /\ get_resolution(m).ok <=> is_resolution_finalized(m)
    /\ is_resolution_finalized(m)
         => get_resolution(m) = [ok |-> TRUE, val |-> proposed_resolutions[m].result]
    /\ ~is_resolution_finalized(m)
         => get_resolution(m) = [ok |-> FALSE, val |-> O_ERR_NOT_FINALIZED]

\* a record of three votes awaits its deadline, unfinalized, and a call with
\* a verdict that is neither Yes nor No was rejected
C36_Witness ==
  /\ ret.val = O_ERR_INVALID_RESULT
  /\ ret.op \in {"submit-resolution", "admin-resolve"}
  /\ \E m \in LedgerIds :
       /\ proposed_resolutions[m].some
       /\ ~is_resolution_finalized(m)
       /\ ~get_resolution(m).ok

\* C37: in no state would both challenge-resolution and finalize-resolution
\* answer (ok true) for the same market; right after a challenge that
\* answered (ok true) a finalize for the market would be rejected, and right
\* after a finalize that answered (ok true) a challenge would be.
C37_ChallengeFinalizeExclusive ==
  /\ [](\A m \in MarketIds : ~(ChallengeCheck(m) = 0 /\ FinalizeCheck(m) = 0))
  /\ [][/\ (ret'.op = "challenge-resolution" /\ ret'.ok) =>
           \A m \in LedgerIds : challenge_resolution(m) => (FinalizeCheck(m) # 0)'
        /\ (ret'.op = "finalize-resolution" /\ ret'.ok) =>
           \A m \in LedgerIds : finalize_resolution(m) => (ChallengeCheck(m) # 0)'
       ]_vars

\* a challenge was rejected at exactly the deadline of an unchallenged record,
\* where finalize-resolution would answer (ok true)
C37_Witness ==
  /\ ret = Err("challenge-resolution", O_ERR_CHALLENGE_EXPIRED)
  /\ \E m \in LedgerIds :
       /\ block_height = proposed_resolutions[m].challenge_deadline
       /\ FinalizeCheck(m) = 0
       /\ ChallengeCheck(m) = O_ERR_CHALLENGE_EXPIRED

\* the payouts claim would still hand to the users who have not claimed, were
\* side v the winning one
Owed(v) ==
  SumOver([u \in Users |->
             IF u \notin claimed /\ PoolOf(v) > 0
             THEN Payout(stakes[<<u, v>>], distributable_amount, PoolOf(v))
             ELSE 0], Users)

\* C38: the value the market contract holds is never negative, and neither is
\* the sum of the stakes less the payouts claim has handed out; on a Resolved
\* market the first is at least fee-amount plus the payouts still owed on
\* either side, and the second at least fee-amount plus the payouts still owed
\* on the side claim pays.
C38_CustodySolvent ==
  /\ wallet[MARKET] >= 0
  /\ (yes_pool + no_pool) - SumOver(paid, Users) >= 0
  /\ current_state = STATE_RESOLVED
       => /\ \A v \in Sides : wallet[MARKET] >= fee_amount + Owed(v)
          /\ (yes_pool + no_pool) - SumOver(paid, Users)
               >= fee_amount + Owed(winning_side)

\* on a Resolved market with a fee one user has claimed and another, staked
\* on the same side, has not
C38_Witness ==
  /\ current_state = STATE_RESOLVED
  /\ fee_amount > 0
  /\ \E u1 \in claimed : paid[u1] > 0
  /\ \E u2 \in Users \ claimed : stakes[<<u2, winning_side>>] > 0
  /\ Owed(winning_side) > 0

\* C39: as deployed the role tables are and stay empty, every recorded vote is
\* the owner's, every vote counter is at most 1, and every record is one that
\* admin-resolve wrote (proposer owner, deadline = timestamp, market
\* finalized); a step that changes a record is an admin-resolve that answers
\* (ok true).
C39_OnlyOwnerVotes ==
  /\ [](/\ admin_roles = {} /\ resolver_roles = {}
        /\ \A m \in MarketIds, p \in Signers :
             resolution_votes[m][p] # 0 => p = OWNER
        /\ \A m \in MarketIds, side \in Sides :
             get_vote_count(m, side) <= 1
        /\ \A m \in MarketIds :
             proposed_resolutions[m].some
               => /\ proposed_resolutions[m].proposer = OWNER
                  /\ proposed_resolutions[m].challenge_deadline
                       = proposed_resolutions[m].timestamp
                  /\ is_resolution_finalized(m))
  /\ [][proposed_resolutions' # proposed_resolutions
          => ret' = Ok("admin-resolve", 1)]_vars

\* the owner's vote is counted and a vote by a caller without capability,
\* with a fresh nonce and a valid verdict, was rejected
C39_Witness ==
  /\ ret = Err("submit-resolution", O_ERR_NOT_AUTHORIZED)
  /\ used_nonces # DeployedNonces
  /\ \E m \in MarketIds, side \in Sides :
       /\ get_vote_count(m, side) = 1
       /\ resolution_votes[m][OWNER] = side
       /\ ~proposed_resolutions[m].some

\* C40: every submit-resolution the service has broadcast was made from an
\* analysis whose outcome is YES or NO and whose confidence is at least 80,
\* and carries 1 for YES and 2 for NO.
C40_ServiceSubmitsOnlyVerdicts ==
  \A tx \in broadcast :
    /\ tx.analysis.outcome \in {"YES", "NO"}
    /\ tx.analysis.confidence >= 80
    /\ tx.outcomeValue = (IF tx.analysis.outcome = "YES" THEN 1 ELSE 2)

====
